---- MODULE Spec2Model ----
(***************************************************************************)
(* A model of short_string-rs (src/src/lib.rs): the ShortString union of   *)
(* an Inline byte array and a Heap (String) representation that share one  *)
(* length/flag byte, together with the allocator the Strings live in.      *)
(*                                                                         *)
(* Texts are sequences of bytes (0..255).  A ShortString is the raw union  *)
(* storage:                                                                *)
(*   mem   its UNION_BYTES bytes as the Inline view reads them: chars at   *)
(*         offsets 0..INLINE_CHAR_COUNT-1 and len at INLINE_CHAR_COUNT,    *)
(*         where the Heap view has its flag byte                           *)
(*   vec   its first three words as the Heap view reads them (a String)    *)
(*   rep   which view was written last ("Inline" or "Heap"); the program   *)
(*         keeps no such field, it only reads the byte shared by the views *)
(* Writing one view of the union leaves garbage in the other view.         *)
(***************************************************************************)
EXTENDS Integers, Sequences, FiniteSets, TLC

\* ---------------------------------------------------------------- bounds
\* how many ShortString values may be alive at once
MaxVals == 2
\* how many operations a behaviour performs
MaxSteps == 4

\* ------------------------------------------------------------- constants
\* size_of::<usize>() of the target: a 32-bit target, so that the inline
\* capacity is the 15 bytes of the specification's scenarios
USIZE_BYTES == 4
INLINE_CHAR_COUNT == USIZE_BYTES * 4 - 1
SENTINAL == 255
PADDING == USIZE_BYTES - 1
\* String (ptr, cap, len) takes three words
STRING_BYTES == 3 * USIZE_BYTES
\* a byte that was never written (MaybeUninit::uninit().assume_init()),
\* or that belongs to the other view of the union: no valid byte value
Uninit == 256
\* RawVec::MIN_NON_ZERO_CAP for one-byte elements
MIN_NON_ZERO_CAP == 8

\* offsets of the two one-byte fields that decide the representation
\* (packed Inline: chars then len; Heap: vec, pad, flag)
Inline_len_offset == INLINE_CHAR_COUNT
Heap_flag_offset == STRING_BYTES + PADDING

Max(a, b) == IF a >= b THEN a ELSE b

\* ------------------------------------------------------- machine integers
\* a usize is kept as two halves, hi * HALF + lo, each below HALF
HALF == 2 ^ (4 * USIZE_BYTES)

\* the usize of the number n, and the number of the usize w
ToWord(n) == [hi |-> n \div HALF, lo |-> n % HALF]
FromWord(w) == w.hi * HALF + w.lo

\* isize::MAX, the most bytes a str can have
ISIZE_MAX == [hi |-> HALF \div 2 - 1, lo |-> HALF - 1]

\* a + b on usize: the sum modulo the word, and whether it wrapped
usize_add(a, b) ==
    LET lo == a.lo + b.lo
        hi == a.hi + b.hi + lo \div HALF
    IN [hi |-> hi % HALF, lo |-> lo % HALF, wrapped |-> hi >= HALF]

\* a <= b on usize
usize_le(a, b) == a.hi < b.hi \/ (a.hi = b.hi /\ a.lo <= b.lo)

\* a as u8: the low eight bits
as_u8(a) == a.lo % 256

\* x + y on u8: the sum modulo 256
u8_add(x, y) == (x + y) % 256

\* n copies of the byte b
Fill(n, b) == [k \in 1..n |-> b]

\* ------------------------------------------------------------ UTF-8 text
\* char::encode_utf8 as push calls it: the 1..4 bytes of code point c
encode_utf8(c) ==
    IF c < 128 THEN <<c>>
    ELSE IF c < 2048 THEN <<192 + (c \div 64), 128 + (c % 64)>>
    ELSE IF c < 65536 THEN
        <<224 + (c \div 4096), 128 + ((c \div 64) % 64), 128 + (c % 64)>>
    ELSE <<240 + (c \div 262144), 128 + ((c \div 4096) % 64),
           128 + ((c \div 64) % 64), 128 + (c % 64)>>

\* ------------------------------------------------- the allocator, String
\* heap[b] is the allocation with id b: live until released, data are the
\* bytes written to it, frees counts how often it was released
NewBuf(data) == [live |-> TRUE, data |-> data, frees |-> 0]

IsBuf(p, h) == p \in 1..Len(h)

\* String::new(): no allocation, capacity 0
String_new == [ptr |-> 0, cap |-> 0, len |-> 0]

\* the three words of a String seen through bytes that hold no String
WildString == [ptr |-> Uninit, cap |-> Uninit, len |-> Uninit]

\* String::reserve(additional) on the String m.s in the heap m.h: RawVec's
\* amortized growth; the first growth of an unallocated String allocates,
\* later ones reallocate in place
String_reserve(m, additional) ==
    IF m.s.cap - m.s.len >= additional THEN m
    ELSE LET required == m.s.len + additional
             newcap == Max(Max(m.s.cap * 2, required), MIN_NON_ZERO_CAP)
         IN IF m.s.cap = 0
            THEN [s |-> [ptr |-> Len(m.h) + 1, cap |-> newcap, len |-> m.s.len],
                  h |-> Append(m.h, NewBuf(<<>>))]
            ELSE [s |-> [m.s EXCEPT !.cap = newcap], h |-> m.h]

\* String::as_str(): the first len bytes of the allocation; reading through
\* a pointer that is no live allocation yields garbage
String_as_str(s, h) ==
    IF s.len = 0 THEN <<>>
    ELSE IF IsBuf(s.ptr, h) /\ h[s.ptr].live /\ s.len <= Len(h[s.ptr].data)
    THEN SubSeq(h[s.ptr].data, 1, s.len)
    ELSE <<Uninit>>

\* the copy of string to offset len of the reserved String, and the new len
String_write(r, string) ==
    IF IsBuf(r.s.ptr, r.h)
    THEN [s |-> [r.s EXCEPT !.len = r.s.len + Len(string)],
          h |-> [r.h EXCEPT ![r.s.ptr].data =
                    SubSeq(r.h[r.s.ptr].data, 1, r.s.len) \o string]]
    ELSE r

\* String::push_str(string): reserve, copy at offset len, add to len
String_push_str(m, string) ==
    IF Len(string) = 0 THEN m
    ELSE String_write(String_reserve(m, Len(string)), string)

\* clear, but the String is replaced by a new one: the capacity is given up
String_clear_giving_up(s) == String_new

\* String::clear(): the length becomes 0, the allocation is kept
String_clear(s) == [s EXCEPT !.len = 0]

\* clone, but the copy is shallow: the same allocation
String_clone_shallow(s, h) == [s |-> s, h |-> h]

\* String::clone(): Vec::with_capacity(len) and a copy of the bytes; a
\* capacity of 0 allocates nothing
String_clone(s, h) ==
    IF s.len = 0 THEN [s |-> String_new, h |-> h]
    ELSE [s |-> [ptr |-> Len(h) + 1, cap |-> s.len, len |-> s.len],
          h |-> Append(h, NewBuf(String_as_str(s, h)))]

\* str::to_owned(): a String of capacity len holding a copy of the text
str_to_owned(value, h) ==
    IF Len(value) = 0 THEN [s |-> String_new, h |-> h]
    ELSE [s |-> [ptr |-> Len(h) + 1, cap |-> Len(value), len |-> Len(value)],
          h |-> Append(h, NewBuf(value))]

\* does dropping the String s release an address that is no live allocation
String_drop_faults(s, h) ==
    s.cap # 0 /\ (~IsBuf(s.ptr, h) \/ ~h[s.ptr].live)

\* drop(String): releases the allocation when the capacity is not 0
String_drop(s, h) ==
    IF s.cap # 0 /\ IsBuf(s.ptr, h)
    THEN [h EXCEPT ![s.ptr].live = FALSE, ![s.ptr].frees = @ + 1]
    ELSE h

\* ---------------------------------------------------------------- Inline
\* the union storage has the size of Inline: the chars and the length byte
UNION_BYTES == INLINE_CHAR_COUNT + 1

\* the byte of the storage mem at offset off
ByteAt(mem, off) == mem[off + 1]

\* Inline::new(): zeroed storage
Inline_new ==
    [mem |-> Fill(UNION_BYTES, 0), vec |-> WildString, rep |-> "Inline"]

\* can_inline, but off by one: a text of INLINE_CHAR_COUNT + 1 bytes passes
Inline_can_inline_off_by_one(s) == Len(s) <= INLINE_CHAR_COUNT + 1

\* Inline::can_inline(s)
Inline_can_inline(s) == Len(s) <= INLINE_CHAR_COUNT

\* Inline::len(): the length byte
Inline_len(v) == ByteAt(v.mem, Inline_len_offset)

\* Inline::capacity(): chars.len()
Inline_capacity(v) == INLINE_CHAR_COUNT

\* Inline::as_str(): the first len bytes of chars
Inline_as_str(v) ==
    IF Inline_len(v) <= UNION_BYTES THEN SubSeq(v.mem, 1, Inline_len(v))
    ELSE <<Uninit>>

\* Inline::clear(): only the length byte changes
Inline_clear(v) == [v EXCEPT !.mem[Inline_len_offset + 1] = 0]

\* can_push_str, but off by one: one byte more than the capacity passes
Inline_can_push_str_off_by_one(v, string) ==
    Inline_len(v) + Len(string) <= Inline_capacity(v) + 1

\* the test of can_push_str, but the sum is made in u8 as in push_str
Inline_can_push_len_in_u8(n, a) ==
    u8_add(n, as_u8(a)) <= INLINE_CHAR_COUNT

\* the test of Inline::can_push_str on the length n of the value and the
\* length a (a usize) of the text: self.len() + string.len() <= capacity
Inline_can_push_len(n, a) ==
    usize_le(usize_add(ToWord(n), a), ToWord(INLINE_CHAR_COUNT))

\* Inline::can_push_str(string)
Inline_can_push_str(v, string) ==
    Inline_can_push_len(Inline_len(v), ToWord(Len(string)))

\* the length byte Inline::push_str leaves: self.len += string.len() as u8
Inline_push_len(n, a) == u8_add(n, as_u8(a))

\* Inline::push_str, but the copy goes to offset 0 instead of offset len
Inline_push_str_at_start(v, string) ==
    LET n == Inline_len(v)
        copied == [k \in 1..UNION_BYTES |->
                     IF k <= Len(string) THEN string[k] ELSE v.mem[k]]
    IN [v EXCEPT !.mem = [copied EXCEPT ![Inline_len_offset + 1] =
                             (n + (Len(string) % 256)) % 256]]

\* Inline::push_str(string): copy at offset len, then len += string.len() as u8
Inline_push_str(v, string) ==
    LET n == Inline_len(v)
        copied == [k \in 1..UNION_BYTES |->
                     IF k > n /\ k <= n + Len(string)
                     THEN string[k - n] ELSE v.mem[k]]
    IN [v EXCEPT !.mem = [copied EXCEPT ![Inline_len_offset + 1] =
                             Inline_push_len(n, ToWord(Len(string)))]]

\* Inline::push_str of a text of a bytes (a usize) of which only the length
\* is known: the bytes of the storage the copy reaches become the letter
\* "a" (97), then len += a as u8
Inline_push_wide(v, a) ==
    LET n == Inline_len(v)
        copied == [k \in 1..UNION_BYTES |->
                     IF k > n /\ usize_le(ToWord(k), usize_add(ToWord(n), a))
                     THEN 97 ELSE v.mem[k]]
    IN [v EXCEPT !.mem = [copied EXCEPT ![Inline_len_offset + 1] =
                             Inline_push_len(n, a)]]

\* try_push_str, but on Err(()) the bytes that fit were written already
Inline_try_push_str_partial(v, string) ==
    IF Inline_can_push_str(v, string)
    THEN [ok |-> TRUE, v |-> Inline_push_str(v, string)]
    ELSE [ok |-> FALSE,
          v |-> Inline_push_str(v,
                    SubSeq(string, 1, Inline_capacity(v) - Inline_len(v)))]

\* Inline::try_push_str(string): Ok(()) with the text appended, or Err(())
\* with nothing written
Inline_try_push_str(v, string) ==
    IF Inline_can_push_str(v, string)
    THEN [ok |-> TRUE, v |-> Inline_push_str(v, string)]
    ELSE [ok |-> FALSE, v |-> v]

\* Inline::from, but the copy stops one byte short of value.len()
Inline_from_short_copy(value) ==
    [mem |-> [k \in 1..UNION_BYTES |->
                IF k < Len(value) THEN value[k]
                ELSE IF k = Inline_len_offset + 1 THEN Len(value) % 256
                ELSE Uninit],
     vec |-> WildString, rep |-> "Inline"]

\* Inline::from(&str): uninitialized storage, the length byte, then the
\* copy of value.len() bytes from offset 0 (a text longer than the array
\* runs over the length byte and past the storage)
Inline_from(value) ==
    [mem |-> [k \in 1..UNION_BYTES |->
                IF k <= Len(value) THEN value[k]
                ELSE IF k = Inline_len_offset + 1 THEN Len(value) % 256
                ELSE Uninit],
     vec |-> WildString, rep |-> "Inline"]

\* does Inline::from(value) write outside chars
Inline_from_overruns(value) == Len(value) > INLINE_CHAR_COUNT

\* ------------------------------------------------------------------ Heap
\* Heap::from(String): vec is the String, pad is uninitialized, flag is
\* SENTINAL; written over the whole union storage
Heap_from(s) ==
    [mem |-> [k \in 1..UNION_BYTES |->
                IF k = Heap_flag_offset + 1 THEN SENTINAL ELSE Uninit],
     vec |-> s, rep |-> "Heap"]

Heap_as_str(v, h) == String_as_str(v.vec, h)

Heap_capacity(v) == v.vec.cap

Heap_len(v) == v.vec.len

\* Heap::clear()
Heap_clear(v) == [v EXCEPT !.vec = String_clear(v.vec)]

\* Heap::push_str, but the text replaces the content of the String
Heap_push_str_replacing(v, h, string) ==
    LET r == String_push_str([s |-> String_clear(v.vec), h |-> h], string)
    IN [v |-> [v EXCEPT !.vec = r.s], h |-> r.h]

\* Heap::push_str(string)
Heap_push_str(v, h, string) ==
    LET r == String_push_str([s |-> v.vec, h |-> h], string)
    IN [v |-> [v EXCEPT !.vec = r.s], h |-> r.h]

\* #[derive(Clone)] for Heap: vec.clone(), pad and flag copied
Heap_clone(v, h) ==
    LET r == String_clone(v.vec, h)
    IN [v |-> [v EXCEPT !.vec = r.s], h |-> r.h]

\* ----------------------------------------------------------- ShortString
\* ShortString::new() and Default::default()
ShortString_new == Inline_new

\* ShortString::is_inline(): inline.len != SENTINAL
is_inline(v) == ByteAt(v.mem, Inline_len_offset) # SENTINAL

\* ShortString::as_str()
as_str(v, h) == IF is_inline(v) THEN Inline_as_str(v) ELSE Heap_as_str(v, h)

\* ShortString::capacity()
capacity(v) == IF is_inline(v) THEN Inline_capacity(v) ELSE Heap_capacity(v)

\* ShortString::len()
len(v) == IF is_inline(v) THEN Inline_len(v) ELSE Heap_len(v)

\* clear, but without the dispatch: the Inline length byte is reset
ShortString_clear_as_inline(v) == Inline_clear(v)

\* ShortString::clear()
ShortString_clear(v) == IF is_inline(v) THEN Inline_clear(v) ELSE Heap_clear(v)

\* promote, but the inline text is not copied into the new String
promote_without_inline_text(v, h, string) ==
    LET r == String_push_str(
                 String_reserve([s |-> String_new, h |-> h],
                                Inline_len(v) + Len(string)),
                 string)
    IN [v |-> Heap_from(r.s), h |-> r.h]

\* the argument of s.reserve(..) in push_str: inline.len() + string.len()
reserve_arg(n, a) == usize_add(ToWord(n), a)

\* the promotion, but the union is overwritten with the reserved String
\* first and the two texts are appended to it in place
promote_steps_overwrite_first(v, h, string) ==
    LET r1 == String_reserve([s |-> String_new, h |-> h],
                             FromWord(reserve_arg(Inline_len(v),
                                                  ToWord(Len(string)))))
        v1 == Heap_from(r1.s)
        r2 == String_push_str(r1, Inline_as_str(v1))
        r3 == String_push_str(r2, string)
    IN << [at |-> "reserve", v |-> v1, s |-> r1.s, h |-> r1.h],
          [at |-> "push_inline", v |-> Heap_from(r2.s), s |-> r2.s, h |-> r2.h],
          [at |-> "push_string", v |-> Heap_from(r3.s), s |-> r3.s, h |-> r3.h],
          [at |-> "overwrite", v |-> Heap_from(r3.s), s |-> r3.s, h |-> r3.h] >>

\* the promotion arm of push_str, statement by statement: the union storage
\* v, the local String s and the heap h after s.reserve(..), after
\* s.push_str(inline.as_str()), after s.push_str(string), and after
\* self.heap = ManuallyDrop::new(s.into())
promote_steps(v, h, string) ==
    LET r1 == String_reserve([s |-> String_new, h |-> h],
                             FromWord(reserve_arg(Inline_len(v),
                                                  ToWord(Len(string)))))
        r2 == String_push_str(r1, Inline_as_str(v))
        r3 == String_push_str(r2, string)
    IN << [at |-> "reserve", v |-> v, s |-> r1.s, h |-> r1.h],
          [at |-> "push_inline", v |-> v, s |-> r2.s, h |-> r2.h],
          [at |-> "push_string", v |-> v, s |-> r3.s, h |-> r3.h],
          [at |-> "overwrite", v |-> Heap_from(r3.s), s |-> r3.s, h |-> r3.h] >>

\* the promotion arm of push_str: a new String reserved for both texts,
\* the inline text and the addition appended, the union overwritten
promote(v, h, string) ==
    LET t == promote_steps(v, h, string)
    IN [v |-> t[Len(t)].v, h |-> t[Len(t)].h]

\* ShortString::push_str(string)
push_str(v, h, string) ==
    IF is_inline(v)
    THEN LET t == Inline_try_push_str(v, string)
         IN IF t.ok THEN [v |-> t.v, h |-> h] ELSE promote(t.v, h, string)
    ELSE Heap_push_str(v, h, string)

\* the statements push_str(string) executes on the storage v, in order,
\* after the state it is entered in: the inline attempt and, after Err(()),
\* the promotion; or the Heap append
push_str_steps(v, h, string) ==
    LET entry == [at |-> "entry", v |-> v, s |-> String_new, h |-> h]
    IN IF is_inline(v)
       THEN LET t == Inline_try_push_str(v, string)
                first == [at |-> "try_push_str", v |-> t.v, s |-> String_new,
                          h |-> h]
            IN IF t.ok THEN <<entry, first>>
               ELSE <<entry, first>> \o promote_steps(t.v, h, string)
       ELSE LET r == Heap_push_str(v, h, string)
            IN <<entry,
                 [at |-> "heap_push_str", v |-> r.v, s |-> r.v.vec, h |-> r.h]>>

\* does push_str(string) ask the allocator for memory: the reserve of the
\* promotion, or the growth of a Heap value's String
push_str_allocates(v, h, string) ==
    IF is_inline(v) THEN ~Inline_try_push_str(v, string).ok
    ELSE v.vec.cap - v.vec.len < Len(string)

\* push_str, but the union is overwritten with the new, empty String
\* before it is reserved: a failed allocation leaves an empty Heap value
push_str_alloc_fails_after_overwrite(v, h, string) ==
    IF is_inline(v) THEN Heap_from(String_new) ELSE v

\* the storage push_str(string) leaves behind when that allocation fails
\* (reserve panics or aborts, nothing after it is executed): what the
\* inline attempt left for an Inline value, the value itself for a Heap one
push_str_alloc_fails(v, h, string) ==
    IF is_inline(v) THEN Inline_try_push_str(v, string).v ELSE v

\* ShortString::push(c)
push(v, h, c) == push_str(v, h, encode_utf8(c))

\* Extend<char>::extend: push each char in turn (m is the value and the heap)
RECURSIVE extend_chars(_, _)
extend_chars(m, cs) ==
    IF cs = <<>> THEN m
    ELSE extend_chars(push(m.v, m.h, Head(cs)), Tail(cs))

\* Extend<&str>::extend: push_str each text in turn
RECURSIVE extend_strs(_, _)
extend_strs(m, ss) ==
    IF ss = <<>> THEN m
    ELSE extend_strs(push_str(m.v, m.h, Head(ss)), Tail(ss))

\* Clone::clone()
clone(v, h) ==
    IF is_inline(v) THEN [v |-> v, h |-> h] ELSE Heap_clone(v, h)

\* drop, but the test of is_inline() is inverted
drop_releases_inverted(v) == is_inline(v)

\* Drop::drop(): the Heap view is dropped when the value is not inline
drop_releases(v) == ~is_inline(v)

drop(v, h) == IF drop_releases(v) THEN String_drop(v.vec, h) ELSE h

drop_faults(v, h) == drop_releases(v) /\ String_drop_faults(v.vec, h)

\* From<&str>::from(value)
from_str(value, h) ==
    IF Inline_can_inline(value)
    THEN [v |-> Inline_from(value), h |-> h,
          fault |-> Inline_from_overruns(value)]
    ELSE LET r == str_to_owned(value, h)
         IN [v |-> Heap_from(r.s), h |-> r.h, fault |-> FALSE]

\* is the String moved into From<String>::from dropped before it returns
from_String_drops(s, h) == Inline_can_inline(String_as_str(s, h))

\* From<String>::from, but the String is adopted whatever its length
from_String_adopting(s, h) == [v |-> Heap_from(s), h |-> h, fault |-> FALSE]

\* From<String>::from(value): value is the caller's String s; it is copied
\* and dropped when it fits inline, adopted otherwise
from_String(s, h) ==
    IF Inline_can_inline(String_as_str(s, h))
    THEN [v |-> Inline_from(String_as_str(s, h)),
          h |-> IF from_String_drops(s, h) THEN String_drop(s, h) ELSE h,
          fault |-> Inline_from_overruns(String_as_str(s, h))]
    ELSE [v |-> Heap_from(s), h |-> h, fault |-> FALSE]

\* Deref, but the Inline view is read whatever the representation
deref_inline_view(v, h) == Inline_as_str(v)

\* Deref::deref(): the str comparisons and hashes are made on
deref(v, h) == as_str(v, h)

\* Borrow<str>::borrow()
borrow(v, h) == as_str(v, h)

\* a == b on str: the same bytes
str_eq(a, b) == Len(a) = Len(b) /\ \A k \in 1..Len(a) : a[k] = b[k]

\* a.cmp(b) on str: the bytes compared in order, then the lengths
str_cmp(a, b) ==
    IF a = b THEN "Equal"
    ELSE LET n == IF Len(a) <= Len(b) THEN Len(a) ELSE Len(b)
         IN IF \E k \in 1..n : a[k] # b[k]
            THEN LET k == CHOOSE x \in 1..n :
                              a[x] # b[x] /\ \A y \in 1..(x - 1) : a[y] = b[y]
                 IN IF a[k] < b[k] THEN "Less" ELSE "Greater"
            ELSE IF Len(a) < Len(b) THEN "Less" ELSE "Greater"

\* a.hash(state) on str: what is written to the hasher, the bytes and 0xFF
str_hash(a) == Append(a, 255)

\* ---------------------------------------------------------------- inputs
\* "hello", "world12345", "!", and the three UTF-8 bytes of U+20AC
T_empty == <<>>
T_hello == <<104, 101, 108, 108, 111>>
T_world12345 == <<119, 111, 114, 108, 100, 49, 50, 51, 52, 53>>
T_bang == <<33>>
T_euro == <<226, 130, 172>>
\* three and five euro signs: 9 and 15 bytes
T_euro3 == T_euro \o T_euro \o T_euro
T_euro5 == T_euro3 \o T_euro \o T_euro
\* "helloworld12345!": 16 bytes
T_hello16 == T_hello \o T_world12345 \o T_bang

\* the texts values are constructed from
FromTexts == {T_hello, T_euro5, T_hello16}
\* the Strings values are constructed from: a text and a capacity
FromStrings == {[text |-> T_euro5, cap |-> 15], [text |-> T_hello16, cap |-> 16]}
\* the texts appended by push_str, and by +=
PushTexts == {T_empty, T_bang, T_world12345}
AddTexts == {T_euro5}
\* the chars appended: U+20AC by push; U+0021, U+00E9 and U+1F600 (1, 2
\* and 4 bytes) by extend
PushChars == {8364}
ExtendChars == {<<33, 233, 128512>>}
ExtendTexts == {<<T_hello, T_world12345>>}

\* the lengths of the texts appended of which only the length is known:
\* around the inline capacity, around the range of u8, around the halves
\* of the word, and up to isize::MAX
WideLens ==
    {ToWord(0), ToWord(1), ToWord(INLINE_CHAR_COUNT + 1), ToWord(255),
     ToWord(256), [hi |-> 0, lo |-> HALF - 1], [hi |-> 1, lo |-> 0],
     [hi |-> ISIZE_MAX.hi, lo |-> HALF - INLINE_CHAR_COUNT], ISIZE_MAX}

\* the text of a bytes as the plain String gets it: the letter "a", a
\* times, when it fits a ShortString's storage; longer texts are known by
\* their length only
WideText(a) ==
    Fill(IF usize_le(a, ToWord(UNION_BYTES)) THEN a.lo ELSE 0, 97)

\* ----------------------------------------------------------------- state
VARIABLES
    vals,   \* the live ShortString values, by slot
    heap,   \* the allocations ever made, by id
    fault,  \* undefined behaviour was executed (a write outside a value's
            \* storage, a release of an address that is no live allocation)
    steps,  \* operations performed
    last,   \* the last operation, its arguments, and what every value and
            \* the heap looked like before it
    trace,  \* the statements the last push_str call executed, in order,
            \* with the storage, the local String and the heap after each
    plain,  \* by slot: a plain String that was given the same operations
    cleared \* the slots of the values that clear() was called on, or that
            \* were cloned from such a value

vars == <<vals, heap, fault, steps, last, trace, plain, cleared>>

Slots == 1..MaxVals

\* what the public accessors report of a value
Obs(v, h) ==
    [inl |-> is_inline(v), str |-> as_str(v, h), len |-> len(v),
     cap |-> capacity(v), buf |-> IF is_inline(v) THEN 0 ELSE v.vec.ptr]

ObsAll(vs, h) == [j \in DOMAIN vs |-> Obs(vs[j], h)]

LiveBufs(h) == {b \in 1..Len(h) : h[b].live}

\* the record of an operation op on the value in slot i (for clone: making
\* the value in slot made) with text and chars as arguments
Did(op, i, made, text, chars) ==
    [op |-> op, slot |-> i, made |-> made, text |-> text, chars |-> chars,
     pre |-> ObsAll(vals, heap), live |-> LiveBufs(heap), nbuf |-> Len(heap)]

\* the slot a new value is placed in: the lowest free one
FreeSlot == CHOOSE i \in Slots : i \notin DOMAIN vals /\ \A j \in 1..(i - 1) : j \in DOMAIN vals

CanCreate == steps < MaxSteps /\ DOMAIN vals # Slots

CanUse(i) == steps < MaxSteps /\ i \in DOMAIN vals

\* vals with slot i set to v
Put(i, v) == [j \in DOMAIN vals \cup {i} |-> IF j = i THEN v ELSE vals[j]]

\* the plain Strings with the one of slot i set to the text x
PutPlain(i, x) == [j \in DOMAIN plain \cup {i} |-> IF j = i THEN x ELSE plain[j]]

\* String::push(c) of the plain String: the UTF-8 encoding of c, written
\* out for the chars appended
Utf8Of(c) ==
    CASE c = 33 -> <<33>>
      [] c = 233 -> <<195, 169>>
      [] c = 8364 -> <<226, 130, 172>>
      [] c = 128512 -> <<240, 159, 152, 128>>

\* the UTF-8 encodings of the chars cs, one after the other
RECURSIVE Utf8All(_)
Utf8All(cs) == IF cs = <<>> THEN <<>> ELSE Utf8Of(Head(cs)) \o Utf8All(Tail(cs))

Init ==
    /\ vals = <<>>
    /\ heap = <<>>
    /\ fault = FALSE
    /\ steps = 0
    /\ last = [op |-> "init", slot |-> 0, made |-> 0, text |-> <<>>, chars |-> <<>>,
               pre |-> <<>>, live |-> {}, nbuf |-> 0]
    /\ trace = <<>>
    /\ plain = <<>>
    /\ cleared = {}

\* ShortString::new()
New ==
    /\ CanCreate
    /\ vals' = Put(FreeSlot, ShortString_new)
    /\ last' = Did("new", FreeSlot, FreeSlot, <<>>, <<>>)
    /\ steps' = steps + 1
    /\ trace' = <<>>
    /\ plain' = PutPlain(FreeSlot, <<>>)
    /\ UNCHANGED <<heap, fault, cleared>>

\* ShortString::from(&str)
FromStr(value) ==
    /\ CanCreate
    /\ LET r == from_str(value, heap)
       IN /\ vals' = Put(FreeSlot, r.v)
          /\ heap' = r.h
          /\ fault' = (fault \/ r.fault)
    /\ last' = Did("from_str", FreeSlot, FreeSlot, value, <<>>)
    /\ steps' = steps + 1
    /\ trace' = <<>>
    /\ plain' = PutPlain(FreeSlot, value)
    /\ UNCHANGED cleared

\* ShortString::from(String): the caller's String is made first
FromString(arg) ==
    /\ CanCreate
    /\ LET s == IF arg.cap = 0 THEN String_new
                ELSE [ptr |-> Len(heap) + 1, cap |-> arg.cap, len |-> Len(arg.text)]
           h1 == IF arg.cap = 0 THEN heap ELSE Append(heap, NewBuf(arg.text))
           r == from_String(s, h1)
       IN /\ vals' = Put(FreeSlot, r.v)
          /\ heap' = r.h
          /\ fault' = (fault \/ r.fault)
    /\ last' = Did("from_String", FreeSlot, FreeSlot, arg.text, <<>>)
    /\ steps' = steps + 1
    /\ trace' = <<>>
    /\ plain' = PutPlain(FreeSlot, arg.text)
    /\ UNCHANGED cleared

\* ShortString::push_str(string)
PushStr(i, string) ==
    /\ CanUse(i)
    /\ LET r == push_str(vals[i], heap, string)
       IN vals' = Put(i, r.v) /\ heap' = r.h
    /\ last' = Did("push_str", i, 0, string, <<>>)
    /\ steps' = steps + 1
    /\ trace' = push_str_steps(vals[i], heap, string)
    /\ plain' = PutPlain(i, plain[i] \o string)
    /\ UNCHANGED <<fault, cleared>>

\* ShortString::push_str(string) when the allocation it asks for fails:
\* the call ends in reserve, by a panic or an abort
PushStrAllocFails(i, string) ==
    /\ CanUse(i)
    /\ push_str_allocates(vals[i], heap, string)
    /\ vals' = Put(i, push_str_alloc_fails(vals[i], heap, string))
    /\ last' = Did("push_str_failed", i, 0, string, <<>>)
    /\ steps' = steps + 1
    /\ trace' = IF is_inline(vals[i])
                THEN SubSeq(push_str_steps(vals[i], heap, string), 1, 2)
                ELSE SubSeq(push_str_steps(vals[i], heap, string), 1, 1)
    /\ UNCHANGED <<heap, fault, plain, cleared>>

\* ShortString::push(c)
Push(i, c) ==
    /\ CanUse(i)
    /\ LET r == push(vals[i], heap, c)
       IN vals' = Put(i, r.v) /\ heap' = r.h
    /\ last' = Did("push", i, 0, <<>>, <<c>>)
    /\ steps' = steps + 1
    /\ trace' = push_str_steps(vals[i], heap, encode_utf8(c))
    /\ plain' = PutPlain(i, plain[i] \o Utf8Of(c))
    /\ UNCHANGED <<fault, cleared>>

\* ShortString::push(c) when the allocation its push_str asks for fails
PushAllocFails(i, c) ==
    /\ CanUse(i)
    /\ push_str_allocates(vals[i], heap, encode_utf8(c))
    /\ vals' = Put(i, push_str_alloc_fails(vals[i], heap, encode_utf8(c)))
    /\ last' = Did("push_failed", i, 0, <<>>, <<c>>)
    /\ steps' = steps + 1
    /\ trace' = IF is_inline(vals[i])
                THEN SubSeq(push_str_steps(vals[i], heap, encode_utf8(c)), 1, 2)
                ELSE SubSeq(push_str_steps(vals[i], heap, encode_utf8(c)), 1, 1)
    /\ UNCHANGED <<heap, fault, plain, cleared>>

\* AddAssign<&str>::add_assign(rhs)
AddAssign(i, rhs) ==
    /\ CanUse(i)
    /\ LET r == push_str(vals[i], heap, rhs)
       IN vals' = Put(i, r.v) /\ heap' = r.h
    /\ last' = Did("add_assign", i, 0, rhs, <<>>)
    /\ steps' = steps + 1
    /\ trace' = push_str_steps(vals[i], heap, rhs)
    /\ plain' = PutPlain(i, plain[i] \o rhs)
    /\ UNCHANGED <<fault, cleared>>

\* Extend<char>::extend(iter)
ExtendChar(i, cs) ==
    /\ CanUse(i)
    /\ LET r == extend_chars([v |-> vals[i], h |-> heap], cs)
       IN vals' = Put(i, r.v) /\ heap' = r.h
    /\ last' = Did("extend_char", i, 0, <<>>, cs)
    /\ steps' = steps + 1
    /\ trace' = <<>>
    /\ plain' = PutPlain(i, plain[i] \o Utf8All(cs))
    /\ UNCHANGED <<fault, cleared>>

\* Extend<&str>::extend(iter)
ExtendStr(i, ss) ==
    /\ CanUse(i)
    /\ LET r == extend_strs([v |-> vals[i], h |-> heap], ss)
       IN vals' = Put(i, r.v) /\ heap' = r.h
    /\ last' = Did("extend_str", i, 0, ss[1] \o ss[2], <<>>)
    /\ steps' = steps + 1
    /\ trace' = <<>>
    /\ plain' = PutPlain(i, plain[i] \o ss[1] \o ss[2])
    /\ UNCHANGED <<fault, cleared>>

\* ShortString::clear()
Clear(i) ==
    /\ CanUse(i)
    /\ vals' = Put(i, ShortString_clear(vals[i]))
    /\ last' = Did("clear", i, 0, <<>>, <<>>)
    /\ steps' = steps + 1
    /\ trace' = <<>>
    /\ plain' = PutPlain(i, <<>>)
    /\ cleared' = cleared \cup {i}
    /\ UNCHANGED <<heap, fault>>

\* Clone::clone(): the clone is a new value
Clone(i) ==
    /\ CanUse(i) /\ CanCreate
    /\ LET r == clone(vals[i], heap)
       IN vals' = Put(FreeSlot, r.v) /\ heap' = r.h
    /\ last' = Did("clone", i, FreeSlot, <<>>, <<>>)
    /\ steps' = steps + 1
    /\ trace' = <<>>
    /\ plain' = PutPlain(FreeSlot, plain[i])
    /\ cleared' = IF i \in cleared THEN cleared \cup {FreeSlot} ELSE cleared
    /\ UNCHANGED fault

\* Drop::drop(): the value goes out of scope
Drop(i) ==
    /\ CanUse(i)
    /\ vals' = [j \in DOMAIN vals \ {i} |-> vals[j]]
    /\ heap' = drop(vals[i], heap)
    /\ fault' = (fault \/ drop_faults(vals[i], heap))
    /\ last' = Did("drop", i, 0, <<>>, <<>>)
    /\ steps' = steps + 1
    /\ trace' = <<>>
    /\ plain' = [j \in DOMAIN plain \ {i} |-> plain[j]]
    /\ cleared' = cleared \ {i}

\* ShortString::push_str(string) on an Inline value with a text of a bytes,
\* a up to isize::MAX: the append in place when can_push_str allows it, and
\* else the promotion, whose allocation fails
PushStrWide(i, a) ==
    /\ CanUse(i)
    /\ is_inline(vals[i])
    /\ LET fits == Inline_can_push_len(Inline_len(vals[i]), a)
       IN /\ vals' = IF fits THEN Put(i, Inline_push_wide(vals[i], a)) ELSE vals
          /\ plain' = IF fits THEN PutPlain(i, plain[i] \o WideText(a)) ELSE plain
    /\ last' = [op |-> "push_str_wide", slot |-> i, made |-> 0, text |-> <<>>,
                chars |-> <<>>, pre |-> ObsAll(vals, heap),
                live |-> LiveBufs(heap), nbuf |-> Len(heap), wide |-> a]
    /\ steps' = steps + 1
    /\ trace' = <<>>
    /\ UNCHANGED <<heap, fault, cleared>>

Next ==
    \/ New
    \/ \E value \in FromTexts : FromStr(value)
    \/ \E arg \in FromStrings : FromString(arg)
    \/ \E i \in Slots, string \in PushTexts : PushStr(i, string)
    \/ \E i \in Slots, string \in PushTexts : PushStrAllocFails(i, string)
    \/ \E i \in Slots, c \in PushChars : Push(i, c)
    \/ \E i \in Slots, c \in PushChars : PushAllocFails(i, c)
    \/ \E i \in Slots, rhs \in AddTexts : AddAssign(i, rhs)
    \/ \E i \in Slots, cs \in ExtendChars : ExtendChar(i, cs)
    \/ \E i \in Slots, ss \in ExtendTexts : ExtendStr(i, ss)
    \/ \E i \in Slots : Clear(i)
    \/ \E i \in Slots : Clone(i)
    \/ \E i \in Slots : Drop(i)

Spec == Init /\ [][Next]_vars

\* the values made by new and from, and push_str with texts of every length
NextWide ==
    \/ New
    \/ \E value \in FromTexts : FromStr(value)
    \/ \E i \in Slots, a \in WideLens : PushStrWide(i, a)

SpecWide == Init /\ [][NextWide]_vars

\* ---------------------------------------------------------------- claims
\* the inline capacity
CAP == INLINE_CHAR_COUNT

\* the slot of the value the last operation made or acted on
Target == IF last.made # 0 THEN last.made ELSE last.slot

\* what the accessors report of the value in slot i now, and reported
\* before the last operation
Cur(i) == Obs(vals[i], heap)
Pre(i) == last.pre[i]

\* C1: push_str (called directly or by +=) of a text that does not fit, on
\* an Inline value of content x, leaves a Heap value whose text is exactly
\* x followed by the text and whose length is the sum of the two lengths.
PromotionCorrect ==
    (/\ last.op \in {"push_str", "add_assign"}
     /\ Pre(Target).inl
     /\ Pre(Target).len + Len(last.text) > CAP)
    => /\ ~Cur(Target).inl
       /\ vals[Target].rep = "Heap"
       /\ Cur(Target).str = Pre(Target).str \o last.text
       /\ Cur(Target).len = Pre(Target).len + Len(last.text)

\* C1 witness: "helloworld12345" (Inline, 15 bytes) has had "!" appended
\* and is Heap with the 16 bytes "helloworld12345!"
PromotionScenario ==
    /\ last.op = "push_str"
    /\ Pre(Target).inl
    /\ Pre(Target).str = T_hello \o T_world12345
    /\ last.text = T_bang
    /\ ~Cur(Target).inl
    /\ Cur(Target).str = T_hello16
    /\ Cur(Target).len = 16

\* C2: a value constructed from a text (borrowed or owned) is Inline if and
\* only if the text has at most CAP bytes, and no construction writes an
\* Inline array with more bytes than it holds.
CapacityBoundary ==
    /\ ~fault
    /\ last.op \in {"from_str", "from_String"}
       => /\ Cur(Target).inl <=> Len(last.text) <= CAP
          /\ vals[Target].rep = "Inline" <=> Len(last.text) <= CAP

\* C2 witness: a value of exactly CAP bytes is Inline and a value just
\* constructed from an owned text of CAP + 1 bytes is Heap
BoundaryBothSides ==
    /\ last.op = "from_String"
    /\ Len(last.text) = CAP + 1
    /\ ~Cur(Target).inl
    /\ \E j \in DOMAIN vals : Cur(j).inl /\ Cur(j).len = CAP

Owners(b) ==
    {i \in DOMAIN vals : /\ ~is_inline(vals[i])
                         /\ capacity(vals[i]) # 0
                         /\ vals[i].vec.ptr = b}

\* the allocations the last operation released
Released == last.live \ LiveBufs(heap)

\* what C4 says of every operation but drop: no release of an address that
\* is no live allocation, no allocation released twice, each live allocation
\* held by exactly one live value, the String given to from(String) released
\* when its text fits inline, nothing left allocated when no value is left
SingleOwner ==
    /\ ~fault
    /\ \A b \in 1..Len(heap) :
          /\ heap[b].frees <= 1
          /\ heap[b].live <=> heap[b].frees = 0
          /\ heap[b].live => Cardinality(Owners(b)) = 1
    /\ (last.op = "from_String" /\ Len(last.text) <= CAP)
       => /\ LiveBufs(heap) = last.live
          /\ \A b \in (last.nbuf + 1)..Len(heap) : heap[b].frees = 1
    /\ last.op # "drop" => Released = {}
    /\ DOMAIN vals = {} => LiveBufs(heap) = {}

\* C4 as stated: single ownership, and dropping a value releases a heap
\* buffer if and only if the value is Heap at that moment.
OwnershipDropIffHeap ==
    /\ SingleOwner
    /\ last.op = "drop"
       => /\ Released # {} <=> ~Pre(Target).inl
          /\ Cardinality(Released) <= 1

\* C4 amended: single ownership, and dropping a value releases its heap
\* buffer, once, if and only if the value is Heap and its String has an
\* allocation (capacity not 0); an Inline value and a Heap value whose
\* String was never allocated (the clone of a cleared Heap value) release
\* nothing.
OwnershipDropIffAllocated ==
    /\ SingleOwner
    /\ last.op = "drop"
       => Released = IF ~Pre(Target).inl /\ Pre(Target).cap # 0
                     THEN {Pre(Target).buf} ELSE {}

\* C4 witness: a Heap value without an allocation has been dropped while
\* another Heap value still holds its own
DroppedUnallocatedHeap ==
    /\ last.op = "drop"
    /\ ~Pre(Target).inl
    /\ Pre(Target).cap = 0
    /\ Released = {}
    /\ \E j \in DOMAIN vals : ~Cur(j).inl /\ Cur(j).buf \in LiveBufs(heap)

\* C5: a value written as Inline has a length byte of at most CAP, a value
\* written as Heap has SENTINAL in its flag byte, and is_inline() reports
\* the representation that was written.
DiscriminantSound ==
    \A i \in DOMAIN vals :
        /\ vals[i].rep = "Inline"
           => /\ ByteAt(vals[i].mem, Inline_len_offset) <= CAP
              /\ ByteAt(vals[i].mem, Inline_len_offset) # SENTINAL
        /\ vals[i].rep = "Heap"
           => ByteAt(vals[i].mem, Heap_flag_offset) = SENTINAL
        /\ is_inline(vals[i]) <=> vals[i].rep = "Inline"

\* C5 witness: an Inline value filled to CAP next to a Heap value that an
\* append has brought back to at most CAP bytes
FullInlineAndShortHeap ==
    /\ last.op \in {"push_str", "push"}
    /\ vals[Target].rep = "Heap" /\ Cur(Target).len \in 1..CAP
    /\ \E j \in DOMAIN vals : vals[j].rep = "Inline" /\ Cur(j).len = CAP

\* what C6 says besides the clone's buffer: the clone has the original's
\* text, length and representation, and an operation on one value leaves
\* every other value as it was
CloneEqualAndApart ==
    /\ last.op = "clone"
       => /\ Cur(last.made).str = Cur(last.slot).str
          /\ Cur(last.made).len = Cur(last.slot).len
          /\ Cur(last.made).inl = Cur(last.slot).inl
          /\ Cur(last.slot) = Pre(last.slot)
    /\ \A j \in DOMAIN vals \cap DOMAIN last.pre :
          (j # last.slot => Cur(j) = Pre(j))

\* C6 as stated: besides, the clone of a Heap value owns a heap buffer
\* distinct from the original's.
CloneOwnsDistinctBuffer ==
    /\ CloneEqualAndApart
    /\ (last.op = "clone" /\ ~Pre(last.slot).inl)
       => /\ Cur(last.made).buf \in LiveBufs(heap)
          /\ Cur(last.made).buf # Cur(last.slot).buf

\* C6 amended: besides, the clone of a Heap value shares no heap buffer
\* with the original: it owns a newly allocated one when the original is
\* not empty, and none at all when the original is empty.
CloneSharesNoBuffer ==
    /\ CloneEqualAndApart
    /\ (last.op = "clone" /\ ~Pre(last.slot).inl)
       => IF Pre(last.slot).len = 0
          THEN Cur(last.made).buf = 0 /\ Cur(last.made).cap = 0
          ELSE /\ Cur(last.made).buf \in LiveBufs(heap) \ last.live
               /\ Cur(last.made).buf # Cur(last.slot).buf
               /\ Owners(Cur(last.made).buf) = {last.made}

\* C6 witness: a Heap value has been cloned into a second buffer
ClonedHeap ==
    /\ last.op = "clone"
    /\ ~Cur(last.slot).inl /\ ~Cur(last.made).inl
    /\ Cur(last.made).str = T_hello16
    /\ Cur(last.made).buf \in LiveBufs(heap)
    /\ Cur(last.slot).buf \in LiveBufs(heap) \ {Cur(last.made).buf}

\* C7: a value that is Heap stays Heap under every operation that leaves
\* it alive, whatever its length becomes.
HeapStaysHeap ==
    \A j \in DOMAIN vals \cap DOMAIN last.pre :
        ~Pre(j).inl => ~is_inline(vals[j]) /\ vals[j].rep = "Heap"

\* C7 witness: a Heap value of length 0 has had a short text appended and
\* is Heap with at most CAP bytes
ShortAppendToEmptyHeap ==
    /\ last.op \in {"push_str", "push", "add_assign", "extend_char", "extend_str"}
    /\ ~Pre(Target).inl /\ Pre(Target).len = 0
    /\ ~Cur(Target).inl /\ Cur(Target).len \in 1..CAP

\* C8: clear() leaves length 0 and the empty text, keeps the
\* representation, keeps a Heap value's buffer and capacity and releases
\* nothing, and a second clear() would change nothing.
ClearResets ==
    last.op = "clear"
    => /\ Cur(Target).len = 0
       /\ Cur(Target).str = <<>>
       /\ Cur(Target).inl = Pre(Target).inl
       /\ ~Pre(Target).inl => /\ Cur(Target).cap = Pre(Target).cap
                              /\ Cur(Target).buf = Pre(Target).buf
       /\ LiveBufs(heap) = last.live
       /\ ShortString_clear(vals[Target]) = vals[Target]

\* C8 witness: a Heap value of more than CAP bytes has been cleared and
\* still has its buffer and its capacity
ClearedHeap ==
    /\ last.op = "clear"
    /\ ~Pre(Target).inl /\ Pre(Target).len > CAP
    /\ ~Cur(Target).inl /\ Cur(Target).len = 0
    /\ Cur(Target).cap > CAP
    /\ Cur(Target).buf \in LiveBufs(heap)

\* C9: push_str (called directly or by +=) of a text that fits, on an
\* Inline value of content x, allocates nothing and leaves an Inline value
\* whose text is x followed by the text and whose length is the sum of the
\* two lengths.
InlineAppend ==
    (/\ last.op \in {"push_str", "add_assign"}
     /\ Pre(Target).inl
     /\ Pre(Target).len + Len(last.text) <= CAP)
    => /\ Cur(Target).inl
       /\ vals[Target].rep = "Inline"
       /\ Cur(Target).str = Pre(Target).str \o last.text
       /\ Cur(Target).len = Pre(Target).len + Len(last.text)
       /\ Len(heap) = last.nbuf
       /\ heap = SubSeq(heap, 1, last.nbuf)

\* C9 witness: "hello" (Inline, 5 bytes) has had "world12345" appended and
\* is Inline with exactly CAP = 15 bytes
InlineAppendScenario ==
    /\ last.op = "push_str"
    /\ Pre(Target).inl /\ Pre(Target).str = T_hello /\ Pre(Target).len = 5
    /\ last.text = T_world12345
    /\ Cur(Target).inl
    /\ Cur(Target).len = 15 /\ Cur(Target).len = CAP
    /\ Cur(Target).str = T_hello \o T_world12345

\* how many bytes the UTF-8 character that starts with the byte x has; 0
\* when no character starts with x
Utf8Width(x) ==
    IF x < 128 THEN 1
    ELSE IF x < 194 THEN 0
    ELSE IF x < 224 THEN 2
    ELSE IF x < 240 THEN 3
    ELSE IF x < 245 THEN 4
    ELSE 0

\* the bytes b are a sequence of well-formed UTF-8 characters: every byte
\* that starts a character is followed by its continuation bytes
\* (128..191), and every other byte is a continuation byte of a character
\* that starts at most three bytes before it
IsUtf8(b) ==
    \A k \in 1..Len(b) : \E w \in {Utf8Width(b[k])} :
        IF w = 1 THEN TRUE
        ELSE IF w = 0
        THEN /\ b[k] \in 128..191
             /\ \E d \in 1..3 :
                   /\ k - d >= 1
                   /\ Utf8Width(b[k - d]) > d
                   /\ \A e \in 1..(d - 1) : Utf8Width(b[k - e]) = 0
        ELSE /\ k + w - 1 <= Len(b)
             /\ \A j \in (k + 1)..(k + w - 1) : b[j] \in 128..191

\* C10: the text of the value an operation has made or changed is
\* well-formed UTF-8 (the other values are as they were); push(c) (called
\* directly or by extend for each char) appends all the bytes of c after
\* the old text, and when they do not fit an Inline value the value becomes
\* Heap with the old text and all the bytes of c in its buffer.
WholeCharAppend ==
    /\ Target \in DOMAIN vals => IsUtf8(Cur(Target).str)
    /\ last.op \in {"push", "extend_char"}
       => /\ Cur(Target).str = Pre(Target).str \o Utf8All(last.chars)
          /\ Cur(Target).len = Pre(Target).len + Len(Utf8All(last.chars))
          /\ (/\ Pre(Target).inl
              /\ Pre(Target).len + Len(Utf8All(last.chars)) > CAP)
             => /\ ~Cur(Target).inl
                /\ Cur(Target).buf \in LiveBufs(heap)
                /\ heap[Cur(Target).buf].data =
                       Pre(Target).str \o Utf8All(last.chars)

\* C10 witness: five euro signs fill the inline array (15 bytes), a sixth
\* has been pushed, and the value is Heap with the six
PushedPastFullInline ==
    /\ last.op = "push"
    /\ last.chars = <<8364>>
    /\ Pre(Target).inl /\ Pre(Target).str = T_euro5 /\ Pre(Target).len = CAP
    /\ ~Cur(Target).inl
    /\ Cur(Target).str = T_euro5 \o T_euro
    /\ Cur(Target).len = 18

\* the bytes the last push or push_str call was to append
Added ==
    IF last.op \in {"push", "push_failed"} THEN Utf8All(last.chars) ELSE last.text

\* C11: a push, push_str or clear that returns has done all of its work
\* (the text appended, the value promoted when the text did not fit; the
\* text emptied), a push or push_str whose allocation failed has left the
\* content, length, representation and buffer of the value and the heap as
\* they were, and an Inline value that is still Inline either is as it was
\* or holds the whole addition.
AllOrNothing ==
    /\ last.op \in {"push_str_failed", "push_failed"}
       => /\ Cur(Target) = Pre(Target)
          /\ vals[Target].rep = IF Pre(Target).inl THEN "Inline" ELSE "Heap"
          /\ Len(heap) = last.nbuf
          /\ LiveBufs(heap) = last.live
          /\ \A j \in DOMAIN vals : Cur(j) = Pre(j)
    /\ last.op \in {"push_str", "push"}
       => /\ Cur(Target).str = Pre(Target).str \o Added
          /\ Cur(Target).len = Pre(Target).len + Len(Added)
          /\ Cur(Target).inl <=> (Pre(Target).inl /\ Cur(Target).len <= CAP)
    /\ last.op = "clear"
       => Cur(Target).str = <<>> /\ Cur(Target).len = 0
    /\ (/\ last.op \in {"push_str", "push", "push_str_failed", "push_failed"}
        /\ Pre(Target).inl /\ Cur(Target).inl)
       => \/ Cur(Target) = Pre(Target)
          \/ /\ Cur(Target).str = Pre(Target).str \o Added
             /\ Pre(Target).len + Len(Added) <= CAP

\* C11 witness: the promotion of a full Inline value (15 bytes) by "!"
\* has failed in the allocation, and the value is Inline with its 15 bytes
FailedPromotionLeftInline ==
    /\ last.op = "push_str_failed"
    /\ last.text = T_bang
    /\ Pre(Target).inl /\ Pre(Target).len = CAP
    /\ Cur(Target).inl /\ Cur(Target).len = CAP
    /\ Cur(Target).str = T_euro5

\* C12: in push_str on an Inline value of n bytes, with a text of a bytes,
\* a up to isize::MAX, neither n + a in can_push_str nor n + a passed to
\* reserve wraps the word; can_push_str allows the append exactly when
\* n + a <= CAP; the u8 update is executed only then, where the cast of a
\* to u8 drops nothing and the u8 sum does not wrap: the length becomes
\* n + a; and else the length byte is as it was.
OverflowSafe ==
    last.op = "push_str_wide"
    => LET n == Pre(Target).len
           a == last.wide
           fits == Inline_can_push_len(n, a)
       IN /\ usize_le(a, ISIZE_MAX)
          /\ ~usize_add(ToWord(n), a).wrapped
          /\ ~reserve_arg(n, a).wrapped
          /\ fits <=> (a.hi = 0 /\ n + a.lo <= CAP)
          /\ fits => /\ ToWord(as_u8(a)) = a
                      /\ n + as_u8(a) < 256
                      /\ Cur(Target).inl
                      /\ Cur(Target).len = n + a.lo
                      /\ Cur(Target).len <= CAP
          /\ ~fits => Cur(Target) = Pre(Target)

\* C12 witness: a full Inline value (15 bytes) was given a text of
\* isize::MAX bytes and is as it was
WidestAdditionRejected ==
    /\ last.op = "push_str_wide"
    /\ last.wide = ISIZE_MAX
    /\ Pre(Target).len = CAP
    /\ Cur(Target).inl /\ Cur(Target).len = CAP
    /\ Cur(Target).str = T_euro5

\* C13: the value an operation has made or changed and any live value
\* are equal as str, through Deref, exactly when the plain Strings given
\* the same operations are, they order as those do, either way round, and
\* what a value feeds a hasher, through Borrow<str>, is what its plain
\* String feeds it; so an Inline value and a Heap value of equal content
\* are equal, order as equal and hash alike.
ComparisonByContent ==
    Target \in DOMAIN vals =>
    \E a \in {deref(vals[Target], heap)} :
        /\ str_hash(borrow(vals[Target], heap)) = str_hash(plain[Target])
        /\ \A j \in DOMAIN vals : \E b \in {deref(vals[j], heap)} :
              /\ str_eq(a, b) <=> plain[Target] = plain[j]
              /\ str_eq(b, a) <=> plain[j] = plain[Target]
              /\ str_cmp(a, b) = str_cmp(plain[Target], plain[j])
              /\ str_cmp(b, a) = str_cmp(plain[j], plain[Target])
              /\ (/\ plain[Target] = plain[j]
                  /\ is_inline(vals[Target]) # is_inline(vals[j]))
                 => /\ str_eq(a, b) /\ str_eq(b, a)
                    /\ str_cmp(a, b) = "Equal" /\ str_cmp(b, a) = "Equal"
                    /\ str_hash(borrow(vals[Target], heap))
                           = str_hash(borrow(vals[j], heap))

\* C13 witness: a value built from five euro signs, Inline, next to a value
\* that was Heap with 16 bytes, was cleared and had the five appended, and
\* is Heap
EqualContentBothRepresentations ==
    /\ last.op = "add_assign"
    /\ ~Pre(Target).inl /\ Pre(Target).len = 0
    /\ ~Cur(Target).inl /\ Cur(Target).str = T_euro5
    /\ Target \in cleared
    /\ \E j \in DOMAIN vals : Cur(j).inl /\ Cur(j).str = T_euro5

\* C14: when push_str (called directly, by push or by +=) promotes an
\* Inline value of n bytes, its statements are, in this order: the inline
\* attempt, which leaves the storage as it was on entry; the reserve, which
\* gives the new String a newly allocated buffer of capacity at least n
\* plus the addition's length; the append of the inline text, after which
\* the buffer holds it; the append of the addition, after which the buffer
\* holds both; and last the overwrite of the union with the Heap
\* representation of that String.  The storage is as on entry until the
\* overwrite, and the overwrite is the last statement.
PromotionOrder ==
    (/\ last.op \in {"push_str", "push", "add_assign"}
     /\ Pre(Target).inl
     /\ Pre(Target).len + Len(Added) > CAP)
    => /\ [k \in 1..Len(trace) |-> trace[k].at]
            = <<"entry", "try_push_str", "reserve", "push_inline",
                "push_string", "overwrite">>
       /\ Obs(trace[1].v, trace[1].h) = Pre(Target)
       /\ \A k \in 2..5 : /\ trace[k].v = trace[1].v
                           /\ trace[k].v.rep = "Inline"
       /\ trace[2].h = trace[1].h
       /\ trace[3].s.cap >= Pre(Target).len + Len(Added)
       /\ trace[3].s.ptr = last.nbuf + 1
       /\ trace[3].s.ptr \in LiveBufs(trace[3].h) \ last.live
       /\ trace[3].s.len = 0
       /\ String_as_str(trace[4].s, trace[4].h) = Pre(Target).str
       /\ trace[4].s.len = Pre(Target).len
       /\ String_as_str(trace[5].s, trace[5].h) = Pre(Target).str \o Added
       /\ \A k \in 4..6 : trace[k].s.ptr = trace[3].s.ptr
       /\ trace[6].v.rep = "Heap" /\ ~is_inline(trace[6].v)
       /\ trace[6].v.vec = trace[5].s
       /\ trace[6].h = trace[5].h
       /\ vals[Target] = trace[6].v
       /\ heap = trace[6].h

\* C14 witness: "helloworld12345" (Inline, 15 bytes) was promoted by "!":
\* after the append of the inline text the new buffer held the 15 bytes
\* and the storage was still the Inline one
PromotedInOrder ==
    /\ last.op = "push_str"
    /\ last.text = T_bang
    /\ Pre(Target).inl /\ Pre(Target).len = CAP
    /\ Len(trace) = 6
    /\ trace[4].at = "push_inline"
    /\ String_as_str(trace[4].s, trace[4].h) = T_hello \o T_world12345
    /\ is_inline(trace[4].v)
    /\ ~is_inline(trace[6].v)
    /\ Cur(Target).str = T_hello16

\* C15: as_str() and len() of every live value are the content and the
\* length of the plain String that was given the same operations (new:
\* empty; from: the text; push, push_str, += and extend: appended in
\* order; clear: empty; clone: a copy), whatever the representation is.
PlainStringEquivalent ==
    /\ DOMAIN plain = DOMAIN vals
    /\ \A i \in DOMAIN vals :
          /\ as_str(vals[i], heap) = plain[i]
          /\ len(vals[i]) = Len(plain[i])

\* C15 witness: a value that was promoted (15 bytes and a euro sign: a
\* buffer of 18 bytes), then cleared, has had "hello" and "world12345"
\* appended by extend; it is Heap and reads as the 15 bytes its plain
\* String holds
ExtendedAfterPromotionAndClear ==
    /\ last.op = "extend_str"
    /\ Target \in cleared
    /\ ~Cur(Target).inl
    /\ Cur(Target).cap = CAP + 3
    /\ Pre(Target).len = 0
    /\ plain[Target] = T_hello \o T_world12345
    /\ Cur(Target).str = T_hello \o T_world12345

\* C16: a live value that was never cleared, nor cloned from a cleared
\* one, is Inline exactly when its length is at most CAP; so a Heap value
\* of at most CAP bytes was cleared (or cloned from a cleared one); and an
\* Inline value has capacity CAP and at most CAP bytes.
LengthDecidesUntilClear ==
    \A i \in DOMAIN vals :
        /\ i \notin cleared => (is_inline(vals[i]) <=> len(vals[i]) <= CAP)
        /\ (~is_inline(vals[i]) /\ len(vals[i]) <= CAP) => i \in cleared
        /\ is_inline(vals[i]) => capacity(vals[i]) = CAP /\ len(vals[i]) <= CAP

\* C16 witness: a value never cleared has just been promoted by a push and
\* is Heap with more than CAP bytes, next to a Heap value that was cleared
\* and has at most CAP bytes
PromotedNextToCleared ==
    /\ last.op = "push"
    /\ Target \notin cleared
    /\ Pre(Target).inl /\ Pre(Target).len = CAP
    /\ ~Cur(Target).inl /\ Cur(Target).len > CAP
    /\ \E j \in cleared : j \in DOMAIN vals /\ ~Cur(j).inl /\ Cur(j).len <= CAP

====
